---- MODULE Spec2Model ----
(***************************************************************************)
(* Model of leabra/layer.py: the Layer container and the LayerSpec cycle   *)
(* algorithm (net input, feedforward/feedback inhibition, unit settling,   *)
(* average activity).  Real numbers are exact rationals <<num, den>> in    *)
(* lowest terms with den > 0.                                              *)
(***************************************************************************)
EXTENDS Integers, Sequences, FiniteSets, TLC

(* ------------------------------------------------------------------ *)
(* Bounds of the exploration                                           *)
(* ------------------------------------------------------------------ *)
MaxUnits == 2
MaxCycles == 3
MaxAdds == 1
MaxKwargs == 2

(* ------------------------------------------------------------------ *)
(* Exact rational arithmetic standing for Python floats                *)
(* ------------------------------------------------------------------ *)
Abs(x) == IF x < 0 THEN -x ELSE x

RECURSIVE GCD(_, _)
GCD(a, b) == IF b = 0 THEN a ELSE GCD(b, a % b)

\* What a division by zero would leave behind if nothing raised.
NaN == <<0, 0>>

Rat(n, d) ==
    IF d = 0 THEN NaN
    ELSE LET g == GCD(Abs(n), Abs(d))
             s == IF d < 0 THEN -1 ELSE 1
         IN  <<(s * n) \div g, (s * d) \div g>>

Zero == <<0, 1>>
One == <<1, 1>>

RAdd(a, b) == Rat(a[1] * b[2] + b[1] * a[2], a[2] * b[2])
RSub(a, b) == Rat(a[1] * b[2] - b[1] * a[2], a[2] * b[2])
RMul(a, b) == Rat(a[1] * b[1], a[2] * b[2])
RLe(a, b) == a[1] * b[2] <= b[1] * a[2]
RMax(a, b) == IF RLe(b, a) THEN a ELSE b

RECURSIVE RSum(_)
RSum(s) == IF s = <<>> THEN Zero ELSE RAdd(Head(s), RSum(Tail(s)))

\* Fault: the empty population goes unnoticed and the division yields NaN.
MeanRaisesNever(s) == FALSE

\* statistics.mean of a non-empty sequence; on an empty one it raises
\* StatisticsError, which the callers model by testing MeanRaises first.
MeanRaises(s) == Len(s) = 0
Mean(s) == Rat(RSum(s)[1], RSum(s)[2] * Len(s))

(* ------------------------------------------------------------------ *)
(* LayerSpec: construction                                             *)
(* ------------------------------------------------------------------ *)
\* The instance attributes set by LayerSpec.__init__ before the kwargs loop.
DefaultAttrs ==
    [ lay_inhib         |-> TRUE,
      fb_dt             |-> Rat(5, 7),
      fb                |-> Rat(1, 1),
      ff                |-> Rat(1, 1),
      g_i               |-> Rat(9, 5),
      ff0               |-> Rat(1, 10),
      avg_act_targ_init |-> Rat(1, 5),
      avg_act_adjust    |-> Rat(1, 1),
      avg_act_fixed     |-> FALSE,
      avg_act_use_first |-> FALSE,
      avg_act_tau       |-> FALSE ]

\* The configuration fields: the names __init__ assigns.
ConfigFields == DOMAIN DefaultAttrs

\* Names found on every LayerSpec instance through its class.
ClassAttrs == {"__init__", "_inhibition", "_netin_scaling", "cycle"}

\* hasattr(self, key): the instance dictionary, then the class.
HasAttr(attrs, key) == key \in (DOMAIN attrs) \cup ClassAttrs

\* setattr(self, key, value): always lands in the instance dictionary.
SetAttr(attrs, key, value) ==
    [k \in (DOMAIN attrs) \cup {key} |-> IF k = key THEN value ELSE attrs[k]]

\* The loop over kwargs.items(): assert hasattr, then setattr.
RECURSIVE ApplyKwargs(_, _)
ApplyKwargs(attrs, kw) ==
    IF Len(kw) = 0 THEN [err |-> "none", attrs |-> attrs]
    ELSE IF ~HasAttr(attrs, kw[1][1])
         THEN [err |-> "AssertionError", attrs |-> attrs]
         ELSE ApplyKwargs(SetAttr(attrs, kw[1][1], kw[1][2]), Tail(kw))

LayerSpecInit(kw) == ApplyKwargs(DefaultAttrs, kw)

\* An instance attribute shadows the method of the same name.
Overridden(s, method) == method \in DOMAIN s

(* ------------------------------------------------------------------ *)
(* Unit: the interface the layer drives (unit.py)                      *)
(* ------------------------------------------------------------------ *)
UnitInit == [act |-> Zero, g_e |-> Zero, g_e_raw |-> Zero]
UnitReset(u) == UnitInit
UnitForceActivity(u, a) == [u EXCEPT !.act = a]
UnitAddExcitatory(u, v) == [u EXCEPT !.g_e_raw = RAdd(@, v)]
UnitCalculateNetIn(u) == [u EXCEPT !.g_e = u.g_e_raw, !.g_e_raw = Zero]
\* The activation dynamics are opaque: whatever the inhibitory conductance g
\* handed in, the new activity a is any value of UnitActs.
UnitCycle(u, g, a) == [u EXCEPT !.act = a]
UnitActs == {Zero, One}

(* ------------------------------------------------------------------ *)
(* Layer: construction and population views                            *)
(* ------------------------------------------------------------------ *)
LayerUnits(size) == [i \in 1..size |-> UnitInit]

activities(us) == [i \in 1..Len(us) |-> us[i].act]
g_e(us) == [i \in 1..Len(us) |-> us[i].g_e]

\* Fault: the loop stops one unit early.
LoopDoneEarly(i, us) == i >= Len(us)

\* for u in layer.units: the loop at position i has run out of units.
LoopDone(i, us) == i > Len(us)

\* Fault: only too long a sequence is refused; zip truncates the rest.
LengthCheckAtMost(values, us) == Len(values) <= Len(us)

\* assert len(values) == len(self.units)
LengthCheck(values, us) == Len(values) = Len(us)

\* zip(self.units, values) stops at the shorter of the two.
ForceZip(us, values) ==
    [i \in 1..Len(us) |->
        IF i <= Len(values) THEN UnitForceActivity(us[i], values[i]) ELSE us[i]]
AddZip(us, values) ==
    [i \in 1..Len(us) |->
        IF i <= Len(values) THEN UnitAddExcitatory(us[i], values[i]) ELSE us[i]]
ResetAll(us) == [i \in 1..Len(us) |-> UnitReset(us[i])]

(* ------------------------------------------------------------------ *)
(* LayerSpec: the inhibition computation                               *)
(* ------------------------------------------------------------------ *)
\* Fault: the max(0, ...) clamp is missing.
FeedforwardInhibitionNoClamp(s, netin) ==
    RMul(s["ff"], RSub(Mean(netin), s["ff0"]))

\* layer.ffi = self.ff * max(0, statistics.mean(netin) - self.ff0)
FeedforwardInhibition(s, netin) ==
    RMul(s["ff"], RMax(Zero, RSub(Mean(netin), s["ff0"])))

\* Fault: the integrator does not leak.
FeedbackInhibitionNoLeak(s, fbi0, avg) ==
    RAdd(fbi0, RMul(s["fb_dt"], RMul(s["fb"], avg)))

\* layer.fbi += self.fb_dt * (self.fb * layer.avg_act - layer.fbi)
FeedbackInhibition(s, fbi0, avg) ==
    RAdd(fbi0, RMul(s["fb_dt"], RSub(RMul(s["fb"], avg), fbi0)))

\* Fault: the feedback component is left out of the sum.
CombinedInhibitionFfiOnly(s, ffi1, fbi1) == RMul(s["g_i"], ffi1)

\* self.g_i * (layer.ffi + layer.fbi)
CombinedInhibition(s, ffi1, fbi1) == RMul(s["g_i"], RAdd(ffi1, fbi1))

\* Fault: lay_inhib is not consulted.
InhibitionAlways(s, us, ffi0, fbi0, avg) ==
    IF MeanRaises(g_e(us))
    THEN [err |-> "StatisticsError", ffi |-> ffi0, fbi |-> fbi0, ret |-> Zero]
    ELSE [err |-> "none",
          ffi |-> FeedforwardInhibition(s, g_e(us)),
          fbi |-> FeedbackInhibition(s, fbi0, avg),
          ret |-> CombinedInhibition(s, FeedforwardInhibition(s, g_e(us)),
                                     FeedbackInhibition(s, fbi0, avg))]

\* _inhibition(layer): the error raised if any, the ffi and fbi it leaves on
\* the layer, and the value it returns.
Inhibition(s, us, ffi0, fbi0, avg) ==
    IF s["lay_inhib"]
    THEN IF MeanRaises(g_e(us))
         THEN [err |-> "StatisticsError", ffi |-> ffi0, fbi |-> fbi0, ret |-> Zero]
         ELSE LET ffi1 == FeedforwardInhibition(s, g_e(us))
                  fbi1 == FeedbackInhibition(s, fbi0, avg)
              IN  [err |-> "none", ffi |-> ffi1, fbi |-> fbi1,
                   ret |-> CombinedInhibition(s, ffi1, fbi1)]
    ELSE [err |-> "none", ffi |-> ffi0, fbi |-> fbi0, ret |-> Zero]

\* Fault: the sum is not divided by the number of units.
AverageActivitySum(us) == RSum(activities(us))

\* layer.avg_act = statistics.mean(layer.activities)
AverageActivity(us) == Mean(activities(us))

(* ------------------------------------------------------------------ *)
(* Inputs of the exploration                                           *)
(* ------------------------------------------------------------------ *)
\* Constructor arguments of the layers explored: the defaults, inhibition
\* off, other scales, and the two method names hasattr lets through.
ScaledKwargs == << <<"ff", Rat(2, 1)>>, <<"fb", Rat(1, 2)>> >>
LayerKwargs ==
    { <<>>,
      << <<"lay_inhib", FALSE>> >>,
      ScaledKwargs,
      << <<"cycle", Zero>> >>,
      << <<"_inhibition", Zero>> >> }

\* Layer sizes explored with each of them: every size up to MaxUnits, one
\* unit fewer for the layers with the other scales.
LayerSizes(kw) == IF Len(kw) = Len(ScaledKwargs) THEN 0..(MaxUnits - 1) ELSE 0..MaxUnits

\* Option names tried on the constructor alone.
CtorKeys == ConfigFields \cup ClassAttrs \cup {"foo", "inhib"}
FlagFields == {"lay_inhib", "avg_act_fixed", "avg_act_use_first", "avg_act_tau"}
KwValues(key) == IF key \in FlagFields THEN BOOLEAN ELSE {Zero, Rat(1, 2)}
KwPairs == UNION {{<<k, v>> : v \in KwValues(k)} : k \in CtorKeys}
CtorKwargs ==
    UNION {{kw \in [1..n -> KwPairs] :
                \A i, j \in 1..n : i # j => kw[i][1] # kw[j][1]} : n \in 0..MaxKwargs}

InputVals == {Zero, Rat(3, 10)}
ForceVals == {Zero, One}
\* The sequences handed to force_activity and add_excitatory: every length
\* from 0 to one more than the number of units, values in ascending order.
Ascending(s) == \A i \in 1..(Len(s) - 1) : RLe(s[i], s[i + 1])
ArgSeqs(vals, n) == UNION {{s \in [1..k -> vals] : Ascending(s)} : k \in 0..(n + 1)}

LenCmp(values, us) ==
    IF Len(values) < Len(us) THEN "shorter"
    ELSE IF Len(values) > Len(us) THEN "longer" ELSE "equal"

(* ------------------------------------------------------------------ *)
(* State                                                               *)
(* ------------------------------------------------------------------ *)
VARIABLES
    spec,          \* the LayerSpec instance dictionary
    kwargs,        \* the keyword arguments the LayerSpec was built from
    units,         \* layer.units
    gc_i, ffi, fbi, avg_act, avg_act_p_eff,    \* the layer's own fields
    pc, idx,       \* position inside LayerSpec.cycle: phase and loop index
    op, err, ret,  \* the last call, the error it raised, the value returned
    argcmp,        \* length of the sequence the last call was given, against
                   \* the number of units: "shorter", "equal", "longer", "none"
    ncycles,       \* cycle() calls made so far
    adds,          \* add_excitatory calls not yet consumed by a net-input phase
    last_end,      \* [fbi, avg_act] at the end of the last completed cycle
    prev_end,      \* the same at the end of the completed cycle before it
    netin_cnt,     \* per unit: calculate_net_in calls in the current cycle
    adv_cnt,       \* per unit: Unit.cycle calls in the current cycle
    adv_gi,        \* per unit: the g_i argument of its last Unit.cycle call there
    inhib_done,    \* the current cycle has computed its inhibition
    acts_changed,  \* some unit's activity changed in the current cycle
    reset_pending, \* a reset happened and no inhibition was computed since
    at_reset       \* [fbi, avg_act] just before that reset

layerFields == <<gc_i, ffi, fbi, avg_act, avg_act_p_eff>>
cycleGhost == <<netin_cnt, adv_cnt, adv_gi, inhib_done, acts_changed>>
history == <<last_end, prev_end>>
resetGhost == <<reset_pending, at_reset>>
vars == <<spec, kwargs, units, layerFields, pc, idx, op, err, ret, argcmp,
          ncycles, adds, history, cycleGhost, resetGhost>>

NoSnapshot == [fbi |-> Zero, avg_act |-> Zero]
NoCounts == [i \in 1..Len(units) |-> 0]
NoArgs == [i \in 1..Len(units) |-> Zero]

\* Layer.__init__ on a LayerSpec built from one of LayerKwargs.
Init ==
    \E kw \in LayerKwargs : \E size \in LayerSizes(kw) :
        /\ LayerSpecInit(kw).err = "none"
        /\ spec = LayerSpecInit(kw).attrs
        /\ kwargs = kw
        /\ units = LayerUnits(size)
        /\ gc_i = Zero /\ ffi = Zero /\ fbi = Zero
        /\ avg_act = Zero
        /\ avg_act_p_eff = LayerSpecInit(kw).attrs["avg_act_targ_init"]
        /\ pc = "idle" /\ idx = 1
        /\ op = "none" /\ err = "none" /\ ret = <<>> /\ argcmp = "none"
        /\ ncycles = 0 /\ adds = 0
        /\ last_end = NoSnapshot
        /\ prev_end = NoSnapshot
        /\ netin_cnt = [i \in 1..size |-> 0]
        /\ adv_cnt = [i \in 1..size |-> 0]
        /\ adv_gi = [i \in 1..size |-> Zero]
        /\ inhib_done = FALSE
        /\ acts_changed = FALSE
        /\ reset_pending = FALSE
        /\ at_reset = NoSnapshot

(* ------------------------------------------------------------------ *)
(* Layer operations                                                    *)
(* ------------------------------------------------------------------ *)
\* Fault: reset also clears the layer's inhibition and average activity.
ResetClearsLayer ==
    /\ pc = "idle"
    /\ units' = ResetAll(units)
    /\ gc_i' = Zero /\ ffi' = Zero /\ fbi' = Zero /\ avg_act' = Zero
    /\ op' = "reset" /\ err' = "none" /\ ret' = <<>> /\ argcmp' = "none"
    /\ adds' = 0
    /\ reset_pending' = TRUE
    /\ at_reset' = [fbi |-> fbi, avg_act |-> avg_act]
    /\ pc' = "returned"
    /\ UNCHANGED <<spec, kwargs, avg_act_p_eff, idx, ncycles, history, cycleGhost>>

\* Layer.reset
Reset ==
    /\ pc = "idle"
    /\ units' = ResetAll(units)
    /\ op' = "reset" /\ err' = "none" /\ ret' = <<>> /\ argcmp' = "none"
    /\ adds' = 0
    /\ reset_pending' = TRUE
    /\ at_reset' = [fbi |-> fbi, avg_act |-> avg_act]
    /\ pc' = "returned"
    /\ UNCHANGED <<spec, kwargs, layerFields, idx, ncycles, history, cycleGhost>>

ReadActivities ==
    /\ pc = "idle"
    /\ op' = "activities" /\ err' = "none" /\ ret' = activities(units) /\ argcmp' = "none"
    /\ pc' = "returned"
    /\ UNCHANGED <<spec, kwargs, units, layerFields, idx, ncycles, adds,
                   history, cycleGhost, resetGhost>>

ForceActivity ==
    /\ pc = "idle"
    /\ \E values \in ArgSeqs(ForceVals, Len(units)) :
        /\ op' = "force_activity" /\ ret' = <<>> /\ argcmp' = LenCmp(values, units)
        /\ IF LengthCheck(values, units)
           THEN units' = ForceZip(units, values) /\ err' = "none"
           ELSE units' = units /\ err' = "AssertionError"
    /\ pc' = "returned"
    /\ UNCHANGED <<spec, kwargs, layerFields, idx, ncycles, adds,
                   history, cycleGhost, resetGhost>>

AddExcitatory ==
    /\ pc = "idle"
    /\ \E inputs \in ArgSeqs(InputVals, Len(units)) :
        /\ op' = "add_excitatory" /\ ret' = <<>> /\ argcmp' = LenCmp(inputs, units)
        /\ IF LengthCheck(inputs, units)
           THEN /\ adds < MaxAdds
                /\ units' = AddZip(units, inputs) /\ err' = "none"
                /\ adds' = adds + 1
           ELSE units' = units /\ err' = "AssertionError" /\ adds' = adds
    /\ pc' = "returned"
    /\ UNCHANGED <<spec, kwargs, layerFields, idx, ncycles,
                   history, cycleGhost, resetGhost>>

(* ------------------------------------------------------------------ *)
(* Layer.cycle -> LayerSpec.cycle, statement by statement              *)
(* ------------------------------------------------------------------ *)
\* self.spec.cycle(self): the attribute lookup and the call.
CycleCall ==
    /\ pc = "idle"
    /\ ncycles < MaxCycles
    /\ ncycles' = ncycles + 1
    /\ op' = "cycle" /\ ret' = <<>> /\ argcmp' = "none"
    /\ IF Overridden(spec, "cycle")
       THEN /\ err' = "TypeError" /\ pc' = "returned"
            /\ UNCHANGED <<idx, adds, cycleGhost>>
       ELSE /\ err' = "none"
            /\ pc' = "netin" /\ idx' = 1
            /\ adds' = 0
            /\ netin_cnt' = NoCounts /\ adv_cnt' = NoCounts /\ adv_gi' = NoArgs
            /\ inhib_done' = FALSE
            /\ acts_changed' = FALSE
    /\ UNCHANGED <<spec, kwargs, units, layerFields, history, resetGhost>>

\* for u in layer.units: u.calculate_net_in()
NetIn ==
    /\ pc = "netin" /\ ~LoopDone(idx, units)
    /\ units' = [units EXCEPT ![idx] = UnitCalculateNetIn(@)]
    /\ netin_cnt' = [netin_cnt EXCEPT ![idx] = @ + 1]
    /\ idx' = idx + 1
    /\ UNCHANGED <<spec, kwargs, layerFields, pc, op, err, ret, argcmp, ncycles,
                   adds, history, adv_cnt, adv_gi, inhib_done, acts_changed, resetGhost>>

\* layer.gc_i = self._inhibition(layer)
InhibitionStep ==
    /\ pc = "netin" /\ LoopDone(idx, units)
    /\ IF Overridden(spec, "_inhibition")
       THEN /\ err' = "TypeError" /\ pc' = "returned"
            /\ UNCHANGED <<gc_i, ffi, fbi, idx, inhib_done, resetGhost>>
       ELSE LET r == Inhibition(spec, units, ffi, fbi, avg_act)
            IN  /\ ffi' = r.ffi /\ fbi' = r.fbi
                /\ IF r.err # "none"
                   THEN /\ err' = r.err /\ pc' = "returned"
                        /\ UNCHANGED <<gc_i, idx, inhib_done, resetGhost>>
                   ELSE /\ gc_i' = r.ret
                        /\ err' = "none" /\ pc' = "units" /\ idx' = 1
                        /\ inhib_done' = TRUE
                        /\ reset_pending' = FALSE
                        /\ UNCHANGED at_reset
    /\ UNCHANGED <<spec, kwargs, units, avg_act, avg_act_p_eff, op, ret, argcmp,
                   ncycles, adds, history, netin_cnt, adv_cnt, adv_gi, acts_changed>>

\* for u in layer.units: u.cycle(g_i=layer.gc_i)
UnitCycleStep ==
    /\ pc = "units" /\ ~LoopDone(idx, units)
    /\ \E a \in UnitActs :
        /\ units' = [units EXCEPT ![idx] = UnitCycle(@, gc_i, a)]
        /\ acts_changed' = (acts_changed \/ a # units[idx].act)
    /\ adv_cnt' = [adv_cnt EXCEPT ![idx] = @ + 1]
    /\ adv_gi' = [adv_gi EXCEPT ![idx] = gc_i]
    /\ idx' = idx + 1
    /\ UNCHANGED <<spec, kwargs, layerFields, pc, op, err, ret, argcmp, ncycles,
                   adds, history, netin_cnt, inhib_done, resetGhost>>

\* layer.avg_act = statistics.mean(layer.activities)
AvgActStep ==
    /\ pc = "units" /\ LoopDone(idx, units)
    /\ pc' = "returned"
    /\ IF MeanRaises(activities(units))
       THEN /\ err' = "StatisticsError"
            /\ UNCHANGED <<avg_act, history>>
       ELSE /\ avg_act' = AverageActivity(units)
            /\ err' = "none"
            /\ prev_end' = last_end
            /\ last_end' = [fbi |-> fbi, avg_act |-> avg_act']
    /\ UNCHANGED <<spec, kwargs, units, gc_i, ffi, fbi, avg_act_p_eff, idx, op, ret,
                   argcmp, ncycles, adds, cycleGhost, resetGhost>>

\* The call has returned or raised: control is back with the caller, which
\* goes on to its next call.
Continue ==
    /\ pc = "returned"
    /\ pc' = "idle" /\ idx' = 1
    /\ op' = "none" /\ err' = "none" /\ ret' = <<>> /\ argcmp' = "none"
    /\ netin_cnt' = NoCounts /\ adv_cnt' = NoCounts /\ adv_gi' = NoArgs
    /\ inhib_done' = FALSE /\ acts_changed' = FALSE
    /\ at_reset' = IF reset_pending THEN at_reset ELSE NoSnapshot
    /\ UNCHANGED <<spec, kwargs, units, layerFields, ncycles, adds, history,
                   reset_pending>>

Next ==
    \/ Reset
    \/ ReadActivities
    \/ ForceActivity
    \/ AddExcitatory
    \/ CycleCall
    \/ NetIn
    \/ InhibitionStep
    \/ UnitCycleStep
    \/ AvgActStep
    \/ Continue

Spec == Init /\ [][Next]_vars

(* ------------------------------------------------------------------ *)
(* LayerSpec construction on its own                                   *)
(* ------------------------------------------------------------------ *)
CtorInit ==
    /\ spec = <<>> /\ kwargs = <<>>
    /\ units = <<>>
    /\ gc_i = Zero /\ ffi = Zero /\ fbi = Zero
    /\ avg_act = Zero /\ avg_act_p_eff = Zero
    /\ pc = "new" /\ idx = 1
    /\ op = "none" /\ err = "none" /\ ret = <<>> /\ argcmp = "none"
    /\ ncycles = 0 /\ adds = 0
    /\ last_end = NoSnapshot
    /\ prev_end = NoSnapshot
    /\ netin_cnt = <<>> /\ adv_cnt = <<>> /\ adv_gi = <<>>
    /\ inhib_done = FALSE
    /\ acts_changed = FALSE
    /\ reset_pending = FALSE
    /\ at_reset = NoSnapshot

\* LayerSpec(**kw)
LayerSpecInitCall ==
    /\ pc = "new"
    /\ \E kw \in CtorKwargs :
        /\ kwargs' = kw
        /\ spec' = LayerSpecInit(kw).attrs
        /\ err' = LayerSpecInit(kw).err
        /\ pc' = IF LayerSpecInit(kw).err = "none" THEN "built" ELSE "failed"
    /\ op' = "LayerSpec"
    /\ UNCHANGED <<units, layerFields, idx, ret, argcmp, ncycles, adds, history,
                   cycleGhost, resetGhost>>

CtorNext == LayerSpecInitCall

CtorSpec == CtorInit /\ [][CtorNext]_vars

(* ================================================================== *)
(* Checked properties                                                  *)
(* ================================================================== *)
\* A cycle() call has just returned normally.
Completed == pc = "returned" /\ op = "cycle" /\ err = "none"
InhibitionOn == spec["lay_inhib"]
Units == 1..Len(units)
RInt(n) == Rat(n, 1)
Leak(s, e) == RAdd(e.fbi, RMul(s["fb_dt"], RSub(RMul(s["fb"], e.avg_act), e.fbi)))

\* C1: with inhibition enabled and at least one unit, once the inhibition of a
\* cycle is computed (and up to the return of that cycle) ffi is 0 when the
\* mean excitatory conductance is at most ff0 and ff * (mean - ff0) otherwise:
\* a function of the current conductances alone.
C1_FeedforwardFromCurrentConductances ==
    ((pc = "units" \/ Completed) /\ Len(units) >= 1 /\ InhibitionOn) =>
        IF RLe(Mean(g_e(units)), spec["ff0"])
        THEN ffi = Zero
        ELSE ffi = RMul(spec["ff"], RSub(Mean(g_e(units)), spec["ff0"]))

\* C1 witness: a later cycle of a two-unit layer returned with positive ffi
\* from unequal conductances.
C1_Witness ==
    /\ Completed /\ InhibitionOn /\ Len(units) = 2
    /\ units[1].g_e # units[2].g_e
    /\ ffi # Zero /\ ncycles >= 2

\* C2: with inhibition enabled, the fbi left by every completed cycle is
\* fbi_prev + fb_dt * (fb * A_prev - fbi_prev), fbi_prev and A_prev being what
\* the previous completed cycle left (0 and 0 before the first); the cycle's
\* own average activity plays no part.
C2_FeedbackIntegratesPreviousAverage ==
    InhibitionOn =>
        /\ last_end.fbi = Leak(spec, prev_end)
        /\ Completed => (fbi = last_end.fbi /\ avg_act = last_end.avg_act)

\* C2 witness: a third cycle returned, integrating from a non-zero fbi, its own
\* average differing from the previous one.
C2_Witness ==
    /\ Completed /\ InhibitionOn /\ ncycles = 3
    /\ prev_end.fbi # Zero /\ prev_end.avg_act # Zero
    /\ avg_act # prev_end.avg_act
    /\ fbi # prev_end.fbi

\* C3: after a completed cycle with inhibition enabled gc_i = g_i * (ffi + fbi)
\* for the ffi and fbi of that cycle, and every unit was advanced once, with
\* that gc_i; during the settling loop the units already advanced hold it.
C3_OneInhibitoryConductanceForAll ==
    InhibitionOn =>
        /\ (pc = "units" \/ Completed) =>
              /\ gc_i = RMul(spec["g_i"], RAdd(ffi, fbi))
              /\ \A i \in Units : adv_cnt[i] = 1 => adv_gi[i] = gc_i
        /\ Completed => \A i \in Units : adv_cnt[i] = 1

\* C3 witness: a later cycle of a two-unit layer returned with non-zero ffi,
\* fbi and gc_i.
C3_Witness ==
    /\ Completed /\ InhibitionOn /\ Len(units) = 2
    /\ ffi # Zero /\ fbi # Zero /\ gc_i # Zero
    /\ \A i \in Units : adv_cnt[i] = 1 /\ adv_gi[i] = gc_i

\* C4: with inhibition disabled gc_i, ffi and fbi are 0 in every state, and
\* no unit is ever handed an inhibitory conductance other than 0.
C4_DisabledInhibitionStaysZero ==
    ~InhibitionOn =>
        /\ gc_i = Zero /\ ffi = Zero /\ fbi = Zero
        /\ \A i \in Units : adv_gi[i] = Zero

\* C4 witness: inhibition disabled, a later cycle returned with conductances
\* above the threshold and non-zero average activity before and after.
C4_Witness ==
    /\ ~InhibitionOn /\ Completed /\ ncycles >= 2
    /\ Len(units) >= 1
    /\ \A i \in Units : adv_cnt[i] = 1
    /\ ~RLe(Mean(g_e(units)), spec["ff0"])
    /\ avg_act # Zero /\ prev_end.avg_act # Zero

\* C5: when a cycle returns normally, avg_act times the number of units is the
\* sum of the units' activities as they then stand.
C5_AverageOfPostCycleActivities ==
    (Completed /\ Len(units) >= 1) =>
        RMul(avg_act, RInt(Len(units))) = RSum([i \in Units |-> units[i].act])

\* C5 witness: a cycle returned in which activities changed, leaving all of
\* two units at 1: the pre-cycle mean was lower.
C5_Witness ==
    /\ Completed /\ Len(units) = 2 /\ acts_changed
    /\ avg_act = One

\* C6: a force_activity or add_excitatory call given a sequence shorter or
\* longer than the units raises, and that call changes no unit and no layer
\* field.
C6_LengthMismatchFailsUnchanged ==
    [][ (pc = "idle" /\ op' \in {"force_activity", "add_excitatory"}
            /\ argcmp' # "equal")
        => (err' = "AssertionError" /\ units' = units
            /\ UNCHANGED <<layerFields, spec>>) ]_vars

\* C6 witness: force_activity with too short a sequence raised on a two-unit
\* layer whose units are active.
C6_Witness ==
    /\ pc = "returned" /\ op = "force_activity" /\ err = "AssertionError"
    /\ argcmp = "shorter" /\ Len(units) = 2
    /\ units[1].act # Zero

C8_UnknownOptionRejected ==
    (pc \in {"built", "failed"}) =>
        /\ (\E i \in 1..Len(kwargs) : kwargs[i][1] \notin ConfigFields)
              => err = "AssertionError"
        /\ pc = "built" => ~Overridden(spec, "cycle")

\* C9: reset() puts every unit in its initial state and leaves gc_i, ffi, fbi,
\* avg_act, avg_act_p_eff, the spec and the number of units as they were; the
\* first inhibition computed after it starts from the fbi and avg_act of
\* before the reset.
C9_ResetKeepsLayerFields ==
    [][ /\ (pc = "idle" /\ op' = "reset") =>
              /\ UNCHANGED <<layerFields, spec>>
              /\ Len(units') = Len(units)
              /\ \A i \in Units : units'[i] = UnitInit
        /\ (reset_pending /\ pc = "netin" /\ pc' = "units" /\ InhibitionOn) =>
              fbi' = Leak(spec, at_reset) ]_vars

\* C9 witness: a cycle after a reset is past its inhibition, the fbi and
\* avg_act before the reset having been non-zero.
C9_Witness ==
    /\ pc = "units" /\ InhibitionOn
    /\ ~reset_pending /\ at_reset.fbi # Zero /\ at_reset.avg_act # Zero
    /\ fbi # at_reset.fbi

\* C10: in a cycle every unit's net input is computed once before the
\* inhibition is computed, the inhibition is computed before any unit is
\* advanced, and every unit is advanced once before the cycle returns with
\* its average activity; that average and the mean conductance behind ffi are
\* taken over all the units.
C10_PhaseOrder ==
    /\ pc = "netin" =>
          /\ ~inhib_done
          /\ \A i \in Units : netin_cnt[i] = (IF i < idx THEN 1 ELSE 0)
          /\ \A i \in Units : adv_cnt[i] = 0
    /\ inhib_done => \A i \in Units : netin_cnt[i] = 1
    /\ pc = "units" =>
          /\ inhib_done
          /\ \A i \in Units : adv_cnt[i] = (IF i < idx THEN 1 ELSE 0)
    /\ (\E i \in Units : adv_cnt[i] > 0) => inhib_done
    /\ Completed =>
          /\ inhib_done
          /\ \A i \in Units : netin_cnt[i] = 1 /\ adv_cnt[i] = 1
          /\ Len(units) >= 1
          /\ avg_act = Mean([i \in Units |-> units[i].act])
          /\ InhibitionOn =>
                ffi = RMul(spec["ff"],
                           RMax(Zero, RSub(Mean([i \in Units |-> units[i].g_e]),
                                           spec["ff0"])))

\* C10 witness: a cycle of a two-unit layer returned.
C10_Witness ==
    /\ Completed /\ Len(units) = 2 /\ inhib_done
    /\ \A i \in Units : netin_cnt[i] = 1 /\ adv_cnt[i] = 1

====
